---- MODULE Spec2Model ----
(***************************************************************************)
(* Model of the OCSS order lifecycle: the Inventory singleton (stock       *)
(* ledger), the Cart, and the two checkout paths                           *)
(* (OrderService.create_order and Customer.checkout_via) over the          *)
(* JSON-file record store (StorageManager).                                *)
(*                                                                         *)
(* Every Python function is an operator over a store record                *)
(*   s = [stock, inv, customers, carts, orders, invoices, payments,        *)
(*        shipments]                                                       *)
(* returning the new store and what the call returned or raised.  An       *)
(* action applies one handler as a whole and records its outcome in        *)
(* `last`.  Money is in tenths of a dollar (3.5 -> 35).                    *)
(***************************************************************************)
EXTENDS Integers, Sequences, FiniteSets, TLC

\* ---------------------------------------------------------------- bounds
MaxStock  == 2   \* stock levels explored: 0..MaxStock
MaxQty    == 2   \* quantities passed to a ledger operation called directly
MaxLine   == 1   \* quantity of one cart line
MaxOrders == 1   \* order records created in one run
MaxFaults == 1   \* failed writes of inventory.json in one run
MaxBatch  == 2   \* items in one reserve_batch / release_batch call
MaxPayments  == 2   \* payment records written in one run
MaxShipments == 2   \* shipment records written in one run
MaxCartQty   == 2   \* quantity of one cart line when the cart is exercised
MaxRecords   == 2   \* records one collection holds at a time
MaxAdds      == 3   \* StorageManager.add calls on one collection in one run

\* product ids with a product record (seeded by AuthService.initialize_system)
ProductIds == {1, 2}
\* prices a product may be given, in tenths of a dollar
Prices == {35, 42}
\* ids a caller may pass; 3 has no product record and no stock row
AllIds == {1, 2, 3}
\* the customer id used by the session
CustomerIds == {1}
\* payment method strings, after .lower(); "cash" is not supported
Methods == {"card", "wallet", "cash"}

VARIABLES
  stock_cache,  \* Inventory._stock_cache : product id -> quantity (a dict)
  inventory,    \* inventory.json : product id -> quantity (one row per key)
  faults,       \* writes of inventory.json that failed so far
  customers,    \* customers.json : the ids that have a customer record
  products,     \* products.json : product id -> [id, price]
  carts,        \* carts.json : sequence of [id, customer_id, items]
  orders,       \* orders.json : sequence of [id, customer_id, items, total, status]
  invoices,     \* invoices.json : sequence of [id, order_id, total, paid]
  payments,     \* payments.json : sequence of [id, order_id, method, amount, status]
  shipments,    \* shipments.json : sequence of [id, order_id, status, dated]
  rows,         \* any one entity collection, used through StorageManager directly
  assigned,     \* the ids StorageManager.add returned for `rows`, in order
  run,          \* a checkout followed statement by statement: its position
                \* and local variables
  last          \* the last call: [op, outcome, exc, order_id, invoice_id, undone]

vars == <<stock_cache, inventory, faults, customers, products, carts, orders, invoices,
          payments, shipments, rows, assigned, run, last>>

\* the store as one value, threaded through the operators below
Store == [stock |-> stock_cache, inv |-> inventory, customers |-> customers,
          products |-> products,
          carts |-> carts, orders |-> orders, invoices |-> invoices,
          payments |-> payments, shipments |-> shipments]

\* ------------------------------------------------------------- utilities
RECURSIVE SeqSum(_)
SeqSum(q) == IF q = <<>> THEN 0 ELSE Head(q) + SeqSum(Tail(q))

SetMax(S) == IF S = {} THEN 0 ELSE CHOOSE x \in S : \A y \in S : y <= x

\* sequences over S of length at most n
SeqsUpTo(S, n) == UNION {[1..k -> S] : k \in 0..n}

\* what a call reports
\* (undone: the reservations a failed reserve loop rolled back)
Returned(outcome, exc, oid, iid) ==
  [outcome |-> outcome, exc |-> exc, order_id |-> oid, invoice_id |-> iid, undone |-> 0]
Ok == Returned("ok", "none", 0, 0)
Raise(exc) == Returned("raise", exc, 0, 0)
Fail(msg) == Returned("fail", msg, 0, 0)

\* ------------------------------------------------------- StorageManager
\* StorageManager.add: id = max existing id + 1, record appended
NextId(records) == SetMax({records[i].id : i \in 1..Len(records)}) + 1

\* StorageManager.find_by_id: the index of the first record with that id, or 0
FindIndex(records, id) ==
  IF \E i \in 1..Len(records) : records[i].id = id
  THEN CHOOSE i \in 1..Len(records) :
         records[i].id = id /\ \A j \in 1..(i - 1) : records[j].id # id
  ELSE 0

\* StorageManager.add on a collection: the record gets id = max id + 1 and
\* is appended
storage_add(recs, v) ==
  LET id == NextId(recs)
  IN [recs |-> Append(recs, [id |-> id, v |-> v]), id |-> id]

\* StorageManager.update: the first record with that id takes the new field
\* value; FALSE when there is none
storage_update(recs, id, v) ==
  LET i == FindIndex(recs, id) IN
  IF i = 0 THEN [recs |-> recs, found |-> FALSE]
  ELSE [recs |-> [recs EXCEPT ![i].v = v], found |-> TRUE]

\* the records of a list that do not have that id, in their order
RECURSIVE WithoutId(_, _)
WithoutId(recs, id) ==
  IF recs = <<>> THEN <<>>
  ELSE IF Head(recs).id = id THEN WithoutId(Tail(recs), id)
  ELSE <<Head(recs)>> \o WithoutId(Tail(recs), id)

\* StorageManager.delete: every record with that id is dropped; FALSE when
\* there was none
storage_delete(recs, id) ==
  LET kept == WithoutId(recs, id)
  IN [recs |-> kept, found |-> Len(kept) # Len(recs)]

\* ------------------------------------------------------------- Inventory
\* Inventory.check_stock: 0 for an id the cache does not hold
check_stock(cache, p) == IF p \in DOMAIN cache THEN cache[p] ELSE 0

\* dict assignment cache[p] = v
DictSet(cache, p, v) ==
  [k \in (DOMAIN cache) \cup {p} |-> IF k = p THEN v ELSE cache[k]]

\* Inventory._save_stock -> StorageManager.save_all: one row per cache key;
\* a failing write is caught and printed, the file keeps its old rows
save_stock(s, ok) == IF ok THEN [s EXCEPT !.inv = s.stock] ELSE s

\* mutant: reserve_stock without the availability check
reserve_stock_unchecked(s, p, q, ok) ==
  IF q <= 0 THEN [s |-> s, ret |-> Raise("ValueError")]
  ELSE [s |-> save_stock([s EXCEPT !.stock =
                            DictSet(s.stock, p, check_stock(s.stock, p) - q)], ok),
        ret |-> Ok]

\* mutant: reserve_stock refusing a request for exactly the available stock
reserve_stock_strict(s, p, q, ok) ==
  IF q <= 0 THEN [s |-> s, ret |-> Raise("ValueError")]
  ELSE LET current == check_stock(s.stock, p) IN
       IF current <= q THEN [s |-> s, ret |-> Raise("InsufficientStockError")]
       ELSE [s |-> save_stock([s EXCEPT !.stock = DictSet(s.stock, p, current - q)], ok),
             ret |-> Ok]

\* Inventory.reserve_stock
reserve_stock(s, p, q, ok) ==
  IF q <= 0 THEN [s |-> s, ret |-> Raise("ValueError")]
  ELSE LET current == check_stock(s.stock, p) IN
       IF current < q THEN [s |-> s, ret |-> Raise("InsufficientStockError")]
       ELSE [s |-> save_stock([s EXCEPT !.stock = DictSet(s.stock, p, current - q)], ok),
             ret |-> Ok]

\* Inventory.release_stock
release_stock(s, p, q, ok) ==
  IF q <= 0 THEN [s |-> s, ret |-> Raise("ValueError")]
  ELSE LET current == check_stock(s.stock, p) IN
       [s |-> save_stock([s EXCEPT !.stock = DictSet(s.stock, p, current + q)], ok),
        ret |-> Ok]

\* Inventory.set_stock
set_stock(s, p, q, ok) ==
  IF q < 0 THEN [s |-> s, ret |-> Raise("ValueError")]
  ELSE [s |-> save_stock([s EXCEPT !.stock = DictSet(s.stock, p, q)], ok),
        ret |-> Ok]

\* mutant: the rollback loop stopping before the last reserved item
RECURSIVE release_reserved_short(_, _, _)
release_reserved_short(s, reserved, ok) ==
  IF Len(reserved) <= 1 THEN s
  ELSE release_reserved_short(
         release_stock(s, Head(reserved).product_id, Head(reserved).qty, ok).s,
         Tail(reserved), ok)

\* the rollback loop of reserve_batch: release every item of `reserved` in
\* the order it was reserved, swallowing any exception
RECURSIVE release_reserved(_, _, _)
release_reserved(s, reserved, ok) ==
  IF reserved = <<>> THEN s
  ELSE release_reserved(
         release_stock(s, Head(reserved).product_id, Head(reserved).qty, ok).s,
         Tail(reserved), ok)

\* the try-block loop of reserve_batch from item i on; on the first
\* exception roll back `reserved` and re-raise
RECURSIVE reserve_loop(_, _, _, _, _)
reserve_loop(s, items, i, reserved, ok) ==
  IF i > Len(items) THEN [s |-> s, ret |-> Ok]
  ELSE LET r == reserve_stock(s, items[i].product_id, items[i].qty, ok) IN
       IF r.ret.outcome = "raise"
       THEN [s |-> release_reserved(r.s, reserved, ok),
             ret |-> [r.ret EXCEPT !.undone = Len(reserved)]]
       ELSE reserve_loop(r.s, items, i + 1,
              Append(reserved, [product_id |-> items[i].product_id, qty |-> items[i].qty]),
              ok)

\* Inventory.reserve_batch
reserve_batch(s, items, ok) == reserve_loop(s, items, 1, <<>>, ok)

\* Inventory.release_batch: a release that raises ends the loop
RECURSIVE release_batch(_, _, _)
release_batch(s, items, ok) ==
  IF items = <<>> THEN [s |-> s, ret |-> Ok]
  ELSE LET r == release_stock(s, Head(items).product_id, Head(items).qty, ok) IN
       IF r.ret.outcome = "raise" THEN r
       ELSE release_batch(r.s, Tail(items), ok)

\* --------------------------------------------------------------- Product
\* the seeded products collection: price in tenths of a dollar
Products == [p \in ProductIds |-> [id |-> p, price |-> IF p = 1 THEN 35 ELSE 42]]

\* Product.find_by_id: the product's record, or no product
product_exists(s, p) == p \in DOMAIN s.products

\* StorageManager.update("products", p, {"price": price}): the stored price
\* of product p is overwritten; False for an unknown id
product_set_price(s, p, price) ==
  IF ~product_exists(s, p) THEN [s |-> s, ret |-> Fail("NotFound")]
  ELSE [s |-> [s EXCEPT !.products[p].price = price], ret |-> Ok]

\* -------------------------------------------------------------- CartItem
\* CartItem.__init__ / _calculate_subtotal: subtotal = product price * quantity
CartItem(product, qty) ==
  [product_id |-> product.id, quantity |-> qty, price |-> product.price,
   subtotal |-> product.price * qty]

\* mutant: the quantity changed without recomputing the subtotal
item_update_quantity_stale(item, new_qty) == [item EXCEPT !.quantity = new_qty]

\* CartItem.update_quantity
item_update_quantity(item, new_qty) ==
  [item EXCEPT !.quantity = new_qty, !.subtotal = item.price * new_qty]

\* CartItem.to_dict
item_to_dict(item) ==
  [product_id |-> item.product_id, price |-> item.price, qty |-> item.quantity,
   subtotal |-> item.subtotal]

\* CartItem has no __getitem__: item[key] raises TypeError
item_subscript(item, key) == [exc |-> "TypeError", value |-> 0]

\* ------------------------------------------------------------------ Cart
\* Cart.from_dict: rebuild each stored line from its product as it is stored
\* now (CartItem.from_dict reads product_id and qty only); a line whose
\* product no longer exists, or whose qty is not positive, is skipped
RECURSIVE items_from_dicts(_, _)
items_from_dicts(s, ds) ==
  IF ds = <<>> THEN <<>>
  ELSE LET d == Head(ds) IN
       IF product_exists(s, d.product_id) /\ d.qty > 0
       THEN <<CartItem(s.products[d.product_id], d.qty)>> \o items_from_dicts(s, Tail(ds))
       ELSE items_from_dicts(s, Tail(ds))

cart_from_dict(s, rec) ==
  [id |-> rec.id, customer_id |-> rec.customer_id,
   items |-> items_from_dicts(s, rec.items)]

\* Cart.to_dict
cart_to_dict(cart) ==
  [id |-> cart.id, customer_id |-> cart.customer_id,
   items |-> [i \in 1..Len(cart.items) |-> item_to_dict(cart.items[i])]]

\* mutant: a new cart record on every access
get_or_create_always_new(s, c) ==
  LET rec == [id |-> NextId(s.carts), customer_id |-> c, items |-> <<>>]
  IN [s |-> [s EXCEPT !.carts = Append(s.carts, rec)], cart |-> cart_from_dict(s, rec)]

\* Cart.get_or_create_for_customer: the first cart record of the customer,
\* or a new empty one added to the collection
get_or_create_for_customer(s, c) ==
  IF \E i \in 1..Len(s.carts) : s.carts[i].customer_id = c
  THEN LET i == CHOOSE i \in 1..Len(s.carts) :
                  /\ s.carts[i].customer_id = c
                  /\ \A j \in 1..(i - 1) : s.carts[j].customer_id # c
       IN [s |-> s, cart |-> cart_from_dict(s, s.carts[i])]
  ELSE LET rec == [id |-> NextId(s.carts), customer_id |-> c, items |-> <<>>]
       IN [s |-> [s EXCEPT !.carts = Append(s.carts, rec)], cart |-> cart_from_dict(s, rec)]

\* Cart._save: overwrite the record with this cart's id, or append it
cart_save(s, cart) ==
  LET i == FindIndex(s.carts, cart.id) IN
  IF i # 0 THEN [s EXCEPT !.carts[i] = cart_to_dict(cart)]
  ELSE [s EXCEPT !.carts = Append(s.carts, cart_to_dict(cart))]

\* index of the first line of the cart for product p, or 0
LineIndex(items, p) ==
  IF \E i \in 1..Len(items) : items[i].product_id = p
  THEN CHOOSE i \in 1..Len(items) :
         items[i].product_id = p /\ \A j \in 1..(i - 1) : items[j].product_id # p
  ELSE 0

\* mutant: Cart.add_item appending a new line without looking for the product
cart_add_item_append(s, cart, p, qty) ==
  IF qty <= 0
  THEN [s |-> s, cart |-> cart, ret |-> Raise("ValueError: Quantity must be positive")]
  ELSE IF ~product_exists(s, p)
  THEN [s |-> s, cart |-> cart, ret |-> Raise("ValueError: Product not found")]
  ELSE LET c2 == [cart EXCEPT !.items = Append(cart.items, CartItem(s.products[p], qty))]
       IN [s |-> cart_save(s, c2), cart |-> c2, ret |-> Ok]

\* Cart.add_item
cart_add_item(s, cart, p, qty) ==
  IF qty <= 0
  THEN [s |-> s, cart |-> cart, ret |-> Raise("ValueError: Quantity must be positive")]
  ELSE IF ~product_exists(s, p)
  THEN [s |-> s, cart |-> cart, ret |-> Raise("ValueError: Product not found")]
  ELSE LET i == LineIndex(cart.items, p)
           c2 == IF i # 0
                 THEN [cart EXCEPT !.items[i] =
                         item_update_quantity(cart.items[i], cart.items[i].quantity + qty)]
                 ELSE [cart EXCEPT !.items = Append(cart.items, CartItem(s.products[p], qty))]
       IN [s |-> cart_save(s, c2), cart |-> c2, ret |-> Ok]

\* list.remove: the sequence without its element at index i
RemoveAt(q, i) == SubSeq(q, 1, i - 1) \o SubSeq(q, i + 1, Len(q))

\* mutant: Cart.update_quantity keeping a line whose quantity became 0 (its
\* other results are those of Cart.update_quantity)
cart_update_quantity_keep(s, cart, p, qty) ==
  IF qty < 0
  THEN [s |-> s, cart |-> cart, ret |-> Raise("ValueError: Quantity cannot be negative")]
  ELSE LET i == LineIndex(cart.items, p) IN
       IF i = 0
       THEN [s |-> s, cart |-> cart, ret |-> Raise("ValueError: Item not found in cart")]
       ELSE LET c2 == [cart EXCEPT !.items[i] = item_update_quantity(cart.items[i], qty)]
            IN [s |-> cart_save(s, c2), cart |-> c2, ret |-> Ok]

\* Cart.update_quantity: 0 removes the line, a product not in the cart is an
\* error
cart_update_quantity(s, cart, p, qty) ==
  IF qty < 0
  THEN [s |-> s, cart |-> cart, ret |-> Raise("ValueError: Quantity cannot be negative")]
  ELSE LET i == LineIndex(cart.items, p) IN
       IF i = 0
       THEN [s |-> s, cart |-> cart, ret |-> Raise("ValueError: Item not found in cart")]
       ELSE LET c2 == IF qty = 0
                      THEN [cart EXCEPT !.items = RemoveAt(cart.items, i)]
                      ELSE [cart EXCEPT !.items[i] =
                              item_update_quantity(cart.items[i], qty)]
            IN [s |-> cart_save(s, c2), cart |-> c2, ret |-> Ok]

\* mutant: Cart.clear emptying the object without saving it
cart_clear_unsaved(s, cart) ==
  [s |-> s, cart |-> [cart EXCEPT !.items = <<>>]]

\* Cart.clear
cart_clear(s, cart) ==
  LET c2 == [cart EXCEPT !.items = <<>>] IN [s |-> cart_save(s, c2), cart |-> c2]

\* Cart.total
cart_total(cart) == SeqSum([i \in 1..Len(cart.items) |-> cart.items[i].subtotal])

\* Cart.to_order_snapshot
to_order_snapshot(cart) ==
  [customer_id |-> cart.customer_id,
   items |-> [i \in 1..Len(cart.items) |-> item_to_dict(cart.items[i])],
   total |-> cart_total(cart)]

\* Cart.reserve_all, rollback loop: release what was reserved, swallowing errors
RECURSIVE cart_rollback(_, _, _)
cart_rollback(s, reserved, ok) ==
  IF reserved = <<>> THEN s
  ELSE cart_rollback(
         release_stock(s, Head(reserved).product_id, Head(reserved).qty, ok).s,
         Tail(reserved), ok)

\* Cart.reserve_all, try-block loop from line i on
RECURSIVE cart_reserve_loop(_, _, _, _, _)
cart_reserve_loop(s, items, i, reserved, ok) ==
  IF i > Len(items) THEN [s |-> s, ret |-> Ok]
  ELSE LET r == reserve_stock(s, items[i].product_id, items[i].quantity, ok) IN
       IF r.ret.outcome = "raise"
       THEN [s |-> cart_rollback(r.s, reserved, ok),
             ret |-> [r.ret EXCEPT !.undone = Len(reserved)]]
       ELSE cart_reserve_loop(r.s, items, i + 1,
              Append(reserved,
                     [product_id |-> items[i].product_id, qty |-> items[i].quantity]),
              ok)

\* Cart.reserve_all
reserve_all(s, cart, ok) == cart_reserve_loop(s, cart.items, 1, <<>>, ok)

\* Cart.release_all: release every line of the cart; a raise ends the loop
RECURSIVE release_lines(_, _, _)
release_lines(s, items, ok) ==
  IF items = <<>> THEN [s |-> s, ret |-> Ok]
  ELSE LET r == release_stock(s, Head(items).product_id, Head(items).quantity, ok) IN
       IF r.ret.outcome = "raise" THEN r
       ELSE release_lines(r.s, Tail(items), ok)

release_all(s, cart, ok) == release_lines(s, cart.items, ok)

\* ----------------------------------------------- Order, Invoice, Payment
\* Customer.find_by_id
customer_exists(s, c) == c \in s.customers

\* Order.create: ValueError when the customer has no record, else a new
\* order record with status CREATED
order_create(s, c, items, total) ==
  IF ~customer_exists(s, c) THEN [s |-> s, id |-> 0, ret |-> Raise("ValueError")]
  ELSE LET id == NextId(s.orders)
           rec == [id |-> id, customer_id |-> c, items |-> items, total |-> total,
                   status |-> "CREATED"]
       IN [s |-> [s EXCEPT !.orders = Append(s.orders, rec)], id |-> id, ret |-> Ok]

\* Invoice.create: a new unpaid invoice record for the order
invoice_create(s, order_id, total) ==
  LET id == NextId(s.invoices)
      rec == [id |-> id, order_id |-> order_id, total |-> total, paid |-> FALSE]
  IN [s |-> [s EXCEPT !.invoices = Append(s.invoices, rec)], id |-> id]

\* mutant: Invoice.mark_paid flipping the flag
invoice_mark_paid_toggle(s, id) ==
  LET i == FindIndex(s.invoices, id) IN
  IF i = 0 THEN s ELSE [s EXCEPT !.invoices[i].paid = ~s.invoices[i].paid]

\* Invoice.mark_paid -> StorageManager.update("invoices", id, {"paid": True})
invoice_mark_paid(s, id) ==
  LET i == FindIndex(s.invoices, id) IN
  IF i = 0 THEN s ELSE [s EXCEPT !.invoices[i].paid = TRUE]

\* Order.mark_paid -> StorageManager.update("orders", id, {"status": "PAID"})
order_mark_paid(s, id) ==
  LET i == FindIndex(s.orders, id) IN
  IF i = 0 THEN s ELSE [s EXCEPT !.orders[i].status = "PAID"]

\* PaymentFactory.create: card and wallet only
payment_supported(method) == method \in {"card", "wallet"}

\* mutant: a payment processed without a record of it
payment_process_silent(s, method, amount, order_id) == s

\* CardPayment.process / WalletPayment.process -> Payment._persist("APPROVED")
payment_process(s, method, amount, order_id) ==
  LET rec == [id |-> NextId(s.payments), order_id |-> order_id, method |-> method,
              amount |-> amount, status |-> "APPROVED"]
  IN [s EXCEPT !.payments = Append(s.payments, rec)]

\* ------------------------------------------------ OrderService.create_order
\* the snapshot loop of create_order: every line is read with item["..."]
RECURSIVE order_items(_)
order_items(items) ==
  IF items = <<>> THEN [exc |-> "none", items |-> <<>>]
  ELSE LET pid == item_subscript(Head(items), "product_id")
           rest == order_items(Tail(items))
       IN IF pid.exc # "none" THEN [exc |-> pid.exc, items |-> <<>>]
          ELSE IF rest.exc # "none" THEN rest
          ELSE [exc |-> "none",
                items |-> <<[product_id |-> pid.value,
                             quantity |-> item_subscript(Head(items), "qty").value,
                             price |-> item_subscript(Head(items), "price").value,
                             subtotal |-> item_subscript(Head(items), "subtotal").value]>>
                          \o rest.items]

\* create_order from the payment step on (inside its try block)
create_order_pay(s, cart, method, total, order_id, invoice_id, ok) ==
  IF ~payment_supported(method)
  THEN [s |-> release_all(s, cart, ok).s, ret |-> Fail("PaymentFailed")]
  ELSE LET s1 == payment_process(s, method, total, order_id)
           s2 == invoice_mark_paid(s1, invoice_id)
           s3 == order_mark_paid(s2, order_id)
           s4 == cart_clear(s3, cart).s
       IN [s |-> s4, ret |-> Returned("ok", "none", order_id, invoice_id)]

\* OrderService.create_order
create_order(s, c, method, ok) ==
  LET g == get_or_create_for_customer(s, c)
      cart == g.cart
  IN
  IF cart.items = <<>> THEN [s |-> g.s, ret |-> Raise("CartEmptyError")]
  ELSE
    LET total == cart_total(cart)
        rv == reserve_all(g.s, cart, ok)
    IN
    IF rv.ret.outcome = "raise" /\ rv.ret.exc = "InsufficientStockError"
    THEN [s |-> rv.s, ret |-> Fail("InsufficientStock")]
    ELSE IF rv.ret.outcome = "raise"
    THEN [s |-> release_all(rv.s, cart, ok).s, ret |-> Fail("ReservationFailed")]
    ELSE
      LET snap == order_items(cart.items) IN
      IF snap.exc # "none" THEN [s |-> rv.s, ret |-> Raise(snap.exc)]
      ELSE
        LET oc == order_create(rv.s, c, snap.items, total) IN
        IF oc.ret.outcome = "raise" THEN [s |-> oc.s, ret |-> oc.ret]
        ELSE
          LET ic == invoice_create(oc.s, oc.id, total) IN
          create_order_pay(ic.s, cart, method, total, oc.id, ic.id, ok)

\* ---------------------------------------------------- Customer.checkout_via
\* mutant: the try block of checkout_via clearing the cart before the payment
checkout_via_place_clear_first(s, c, cart, method, ok) ==
  LET snapshot == to_order_snapshot(cart)
      oc == order_create(s, c, snapshot.items, snapshot.total)
  IN
  IF oc.ret.outcome = "raise"
  THEN [s |-> release_all(oc.s, cart, ok).s, ret |-> Fail("CheckoutFailed")]
  ELSE
    LET ic == invoice_create(oc.s, oc.id, snapshot.total)
        s0 == cart_clear(ic.s, cart).s
    IN
    IF ~payment_supported(method)
    THEN [s |-> release_all(s0, cart, ok).s, ret |-> Fail("CheckoutFailed")]
    ELSE LET s1 == payment_process(s0, method, snapshot.total, oc.id)
             s2 == invoice_mark_paid(s1, ic.id)
             s3 == order_mark_paid(s2, oc.id)
         IN [s |-> s3, ret |-> Returned("ok", "none", oc.id, ic.id)]

\* the try block of checkout_via after reserve_all succeeded
checkout_via_place(s, c, cart, method, ok) ==
  LET snapshot == to_order_snapshot(cart)
      oc == order_create(s, c, snapshot.items, snapshot.total)
  IN
  IF oc.ret.outcome = "raise"
  THEN [s |-> release_all(oc.s, cart, ok).s, ret |-> Fail("CheckoutFailed")]
  ELSE
    LET ic == invoice_create(oc.s, oc.id, snapshot.total) IN
    IF ~payment_supported(method)
    THEN [s |-> release_all(ic.s, cart, ok).s, ret |-> Fail("CheckoutFailed")]
    ELSE LET s1 == payment_process(ic.s, method, snapshot.total, oc.id)
             s2 == invoice_mark_paid(s1, ic.id)
             s3 == order_mark_paid(s2, oc.id)
             s4 == cart_clear(s3, cart).s
         IN [s |-> s4, ret |-> Returned("ok", "none", oc.id, ic.id)]

\* mutant: checkout_via without the empty-cart check
checkout_via_unguarded(s, c, method, ok) ==
  LET g == get_or_create_for_customer(s, c)
      cart == g.cart
      rv == reserve_all(g.s, cart, ok)
  IN
  IF rv.ret.outcome = "raise" /\ rv.ret.exc = "InsufficientStockError"
  THEN [s |-> release_all(rv.s, cart, ok).s, ret |-> Fail("InsufficientStock")]
  ELSE IF rv.ret.outcome = "raise"
  THEN [s |-> release_all(rv.s, cart, ok).s, ret |-> Fail("CheckoutFailed")]
  ELSE checkout_via_place(rv.s, c, cart, method, ok)

\* Customer.checkout_via
checkout_via(s, c, method, ok) ==
  LET g == get_or_create_for_customer(s, c)
      cart == g.cart
  IN
  IF cart.items = <<>> THEN [s |-> g.s, ret |-> Raise("CartEmptyError")]
  ELSE
    LET rv == reserve_all(g.s, cart, ok) IN
    IF rv.ret.outcome = "raise" /\ rv.ret.exc = "InsufficientStockError"
    THEN [s |-> release_all(rv.s, cart, ok).s, ret |-> Fail("InsufficientStock")]
    ELSE IF rv.ret.outcome = "raise"
    THEN [s |-> release_all(rv.s, cart, ok).s, ret |-> Fail("CheckoutFailed")]
    ELSE checkout_via_place(rv.s, c, cart, method, ok)

\* Customer.add_to_cart: Cart.add_item's exception propagates
add_to_cart(s, c, p, qty) ==
  LET g == get_or_create_for_customer(s, c)
      r == cart_add_item(g.s, g.cart, p, qty)
  IN [s |-> r.s, ret |-> r.ret]

\* the largest quantity CartService.add_item accepts in one call
AddLimit == 50

\* mutant: CartService.add_item without its stock check
service_add_item_unchecked(s, c, p, qty) ==
  IF qty <= 0 THEN [s |-> s, ret |-> Fail("Quantity must be positive")]
  ELSE IF ~product_exists(s, p) THEN [s |-> s, ret |-> Fail("Product not found")]
  ELSE IF qty > AddLimit THEN [s |-> s, ret |-> Fail("Cannot add more than 50 items")]
  ELSE LET g == get_or_create_for_customer(s, c)
           r == cart_add_item(g.s, g.cart, p, qty)
       IN IF r.ret.outcome = "raise" THEN [s |-> r.s, ret |-> Fail(r.ret.exc)]
          ELSE [s |-> r.s, ret |-> Ok]

\* CartService.add_item: quantity, product and stock are checked before the
\* cart is touched; the cart's exception becomes a failure result
service_add_item(s, c, p, qty) ==
  IF qty <= 0 THEN [s |-> s, ret |-> Fail("Quantity must be positive")]
  ELSE IF ~product_exists(s, p) THEN [s |-> s, ret |-> Fail("Product not found")]
  ELSE IF check_stock(s.stock, p) < qty THEN [s |-> s, ret |-> Fail("Only N units available")]
  ELSE IF qty > AddLimit THEN [s |-> s, ret |-> Fail("Cannot add more than 50 items")]
  ELSE LET g == get_or_create_for_customer(s, c)
           r == cart_add_item(g.s, g.cart, p, qty)
       IN IF r.ret.outcome = "raise" THEN [s |-> r.s, ret |-> Fail(r.ret.exc)]
          ELSE [s |-> r.s, ret |-> Ok]

\* Customer.get_cart
get_cart(s, c) ==
  LET g == get_or_create_for_customer(s, c) IN [s |-> g.s, cart |-> g.cart, ret |-> Ok]

\* Cart.reserve_all called on the customer's cart (its exception propagates)
cart_reserve_all(s, c, ok) ==
  LET g == get_or_create_for_customer(s, c)
  IN reserve_all(g.s, g.cart, ok)

\* CartService.update_item_quantity: the cart's exception becomes a failure
\* result
update_item_quantity(s, c, p, new_qty) ==
  LET g == get_or_create_for_customer(s, c)
      r == cart_update_quantity(g.s, g.cart, p, new_qty)
  IN IF r.ret.outcome = "raise" THEN [s |-> r.s, ret |-> Fail(r.ret.exc)]
     ELSE [s |-> r.s, ret |-> Ok]

\* CartService.remove_item
remove_item(s, c, p) == update_item_quantity(s, c, p, 0)

\* CartService.clear_cart
clear_cart(s, c) ==
  LET g == get_or_create_for_customer(s, c)
  IN [s |-> cart_clear(g.s, g.cart).s, ret |-> Ok]

\* ------------------------------------- a checkout, statement by statement
\* no checkout in progress
Idle ==
  [pc |-> "idle", path |-> "none", c |-> 0, method |-> "none", cart |-> <<>>,
   order_id |-> 0, invoice_id |-> 0, from |-> <<>>]

\* the two checkout handlers
Paths == {"create_order", "checkout_via"}

\* mutant: the order marked PAID before the payment is processed
next_statement_paid_first(pc) ==
  CASE pc = "reserve" -> "snapshot"
    [] pc = "snapshot" -> "order"
    [] pc = "order" -> "invoice"
    [] pc = "invoice" -> "invoice_paid"
    [] pc = "invoice_paid" -> "order_paid"
    [] pc = "order_paid" -> "payment"
    [] pc = "payment" -> "clear"
    [] pc = "clear" -> "idle"

\* the statement that follows each statement of the handler, in source order
next_statement(pc) ==
  CASE pc = "reserve" -> "snapshot"
    [] pc = "snapshot" -> "order"
    [] pc = "order" -> "invoice"
    [] pc = "invoice" -> "payment"
    [] pc = "payment" -> "invoice_paid"
    [] pc = "invoice_paid" -> "order_paid"
    [] pc = "order_paid" -> "clear"
    [] pc = "clear" -> "idle"

\* the handler goes on with its next statement
proceed(s, r) == [s |-> s, run |-> [r EXCEPT !.pc = next_statement(r.pc)], ret |-> Ok]

\* the handler returns or raises
finish(s, ret) == [s |-> s, run |-> Idle, ret |-> ret]

\* the first statements of both handlers: the cart is loaded, an empty cart
\* raises CartEmptyError
checkout_begin(s, c, method, path) ==
  LET g == get_or_create_for_customer(s, c) IN
  IF g.cart.items = <<>> THEN finish(g.s, Raise("CartEmptyError"))
  ELSE [s |-> g.s,
        run |-> [pc |-> "reserve", path |-> path, c |-> c, method |-> method,
                 cart |-> g.cart, order_id |-> 0, invoice_id |-> 0, from |-> s],
        ret |-> Ok]

\* the statement at r.pc of the handler r.path, with the handler's own
\* exception handling
checkout_step(s, r) ==
  LET cart == r.cart
      via == r.path = "checkout_via"
      total == IF via THEN to_order_snapshot(cart).total ELSE cart_total(cart)
  IN
  CASE r.pc = "reserve" ->
         LET rv == reserve_all(s, cart, TRUE) IN
         IF rv.ret.outcome = "raise" /\ rv.ret.exc = "InsufficientStockError"
         THEN finish(IF via THEN release_all(rv.s, cart, TRUE).s ELSE rv.s,
                     Fail("InsufficientStock"))
         ELSE IF rv.ret.outcome = "raise"
         THEN finish(release_all(rv.s, cart, TRUE).s,
                     Fail(IF via THEN "CheckoutFailed" ELSE "ReservationFailed"))
         ELSE proceed(rv.s, r)
    [] r.pc = "snapshot" ->
         IF via THEN proceed(s, r)
         ELSE LET snap == order_items(cart.items) IN
              IF snap.exc # "none" THEN finish(s, Raise(snap.exc)) ELSE proceed(s, r)
    [] r.pc = "order" ->
         LET items == IF via THEN to_order_snapshot(cart).items
                      ELSE order_items(cart.items).items
             oc == order_create(s, r.c, items, total)
         IN IF oc.ret.outcome = "raise"
            THEN IF via THEN finish(release_all(oc.s, cart, TRUE).s, Fail("CheckoutFailed"))
                 ELSE finish(oc.s, oc.ret)
            ELSE proceed(oc.s, [r EXCEPT !.order_id = oc.id])
    [] r.pc = "invoice" ->
         LET ic == invoice_create(s, r.order_id, total)
         IN proceed(ic.s, [r EXCEPT !.invoice_id = ic.id])
    [] r.pc = "payment" ->
         IF ~payment_supported(r.method)
         THEN finish(release_all(s, cart, TRUE).s,
                     Fail(IF via THEN "CheckoutFailed" ELSE "PaymentFailed"))
         ELSE proceed(payment_process(s, r.method, total, r.order_id), r)
    [] r.pc = "invoice_paid" -> proceed(invoice_mark_paid(s, r.invoice_id), r)
    [] r.pc = "order_paid" -> proceed(order_mark_paid(s, r.order_id), r)
    [] r.pc = "clear" ->
         finish(cart_clear(s, cart).s, Returned("ok", "none", r.order_id, r.invoice_id))

\* ------------------------------------------------- payment outside checkout
\* Order.find_by_id -> Order.from_dict: no order for an unknown id; ValueError
\* when the order's customer has no customer record
order_find(s, id) ==
  LET i == FindIndex(s.orders, id) IN
  IF i = 0 THEN [found |-> FALSE, exc |-> "none", index |-> 0]
  ELSE IF ~customer_exists(s, s.orders[i].customer_id)
  THEN [found |-> FALSE, exc |-> "ValueError", index |-> i]
  ELSE [found |-> TRUE, exc |-> "none", index |-> i]

\* Order.find_by_id(id).pay_and_mark(method): the payment is processed and
\* the order marked PAID whatever its status was
pay_and_mark(s, id, method) ==
  LET f == order_find(s, id) IN
  IF f.exc # "none" THEN [s |-> s, ret |-> Raise(f.exc)]
  ELSE IF ~f.found THEN [s |-> s, ret |-> Raise("AttributeError")]
  ELSE IF ~payment_supported(method) THEN [s |-> s, ret |-> Raise("ValueError")]
  ELSE LET s1 == payment_process(s, method, s.orders[f.index].total, id)
       IN [s |-> order_mark_paid(s1, id), ret |-> Returned("ok", "none", id, 0)]

\* Invoice.pay_via on the stored invoice with that id: the payment is
\* processed, the invoice marked paid, and the order marked PAID unless its
\* status is PAID already
pay_via(s, invoice_id, method) ==
  LET i == FindIndex(s.invoices, invoice_id) IN
  IF i = 0 THEN [s |-> s, ret |-> Raise("TypeError")]
  ELSE IF ~payment_supported(method) THEN [s |-> s, ret |-> Raise("ValueError")]
  ELSE
    LET oid == s.invoices[i].order_id
        s1 == payment_process(s, method, s.invoices[i].total, oid)
        s2 == invoice_mark_paid(s1, invoice_id)
        f == order_find(s2, oid)
    IN
    IF f.exc # "none" THEN [s |-> s2, ret |-> Raise(f.exc)]
    ELSE IF f.found /\ s2.orders[f.index].status # "PAID"
    THEN [s |-> order_mark_paid(s2, oid), ret |-> Returned("ok", "none", oid, invoice_id)]
    ELSE [s |-> s2, ret |-> Returned("ok", "none", oid, invoice_id)]

\* ---------------------------------------------------------------- shipping
\* Shipment.create: a new PENDING shipment without a shipping date (the
\* tracking number is carried along unchanged and is left out)
shipment_create(s, order_id) ==
  LET id == NextId(s.shipments)
      rec == [id |-> id, order_id |-> order_id, status |-> "PENDING", dated |-> FALSE]
  IN [s |-> [s EXCEPT !.shipments = Append(s.shipments, rec)], id |-> id]

\* Shipment.mark_shipped -> StorageManager.update: status and shipped_at
shipment_mark_shipped(s, id) ==
  LET i == FindIndex(s.shipments, id) IN
  IF i = 0 THEN s
  ELSE [s EXCEPT !.shipments[i].status = "SHIPPED", !.shipments[i].dated = TRUE]

\* mutant: Order.mark_shipped rewriting the record without its items
order_mark_shipped_rewrite(s, id) ==
  LET i == FindIndex(s.orders, id) IN
  IF i = 0 THEN s
  ELSE [s EXCEPT !.orders[i].status = "SHIPPED", !.orders[i].items = <<>>]

\* Order.mark_shipped -> StorageManager.update("orders", id, {"status": "SHIPPED"})
order_mark_shipped(s, id) ==
  LET i == FindIndex(s.orders, id) IN
  IF i = 0 THEN s ELSE [s EXCEPT !.orders[i].status = "SHIPPED"]

\* Order.ship_with: shipment created and marked shipped, order marked SHIPPED
ship_with(s, id) ==
  LET sc == shipment_create(s, id)
      s1 == shipment_mark_shipped(sc.s, sc.id)
  IN order_mark_shipped(s1, id)

\* Order.find_by_id(id).ship_with(tracking), called without any check
order_ship_with(s, id) ==
  LET f == order_find(s, id) IN
  IF f.exc # "none" THEN [s |-> s, ret |-> Raise(f.exc)]
  ELSE IF ~f.found THEN [s |-> s, ret |-> Raise("AttributeError")]
  ELSE [s |-> ship_with(s, id), ret |-> Returned("ok", "none", id, 0)]

\* mutant: OrderService.ship_order without the PAID check
ship_order_unguarded(s, id) ==
  LET f == order_find(s, id) IN
  IF f.exc # "none" THEN [s |-> s, ret |-> Raise(f.exc)]
  ELSE IF ~f.found THEN [s |-> s, ret |-> Fail("Order not found")]
  ELSE LET sc == shipment_create(s, id)
           s1 == shipment_mark_shipped(sc.s, sc.id)
       IN [s |-> order_mark_shipped(s1, id), ret |-> Returned("ok", "none", id, 0)]

\* OrderService.ship_order
ship_order(s, id) ==
  LET f == order_find(s, id) IN
  IF f.exc # "none" THEN [s |-> s, ret |-> Raise(f.exc)]
  ELSE IF ~f.found THEN [s |-> s, ret |-> Fail("Order not found")]
  ELSE IF s.orders[f.index].status # "PAID" THEN [s |-> s, ret |-> Fail("Order not yet paid")]
  ELSE LET sc == shipment_create(s, id)
           s1 == shipment_mark_shipped(sc.s, sc.id)
       IN [s |-> order_mark_shipped(s1, id), ret |-> Returned("ok", "none", id, 0)]

\* StaffService.ship_order: works on the stored rows; the shipment row is
\* written with status SHIPPED and without a shipping date
staff_ship_order(s, id) ==
  LET i == FindIndex(s.orders, id) IN
  IF i = 0 THEN [s |-> s, ret |-> Fail("Order {id} not found")]
  ELSE IF s.orders[i].status # "PAID" THEN [s |-> s, ret |-> Fail("Order not yet paid")]
  ELSE LET rec == [id |-> NextId(s.shipments), order_id |-> id, status |-> "SHIPPED",
                   dated |-> FALSE]
           s1 == [s EXCEPT !.shipments = Append(s.shipments, rec)]
       IN [s |-> [s1 EXCEPT !.orders[i].status = "SHIPPED"],
           ret |-> Returned("ok", "none", id, 0)]

\* Staff.ship_paid_order: the checks of ship_order, then Order.ship_with
ship_paid_order(s, id) ==
  LET f == order_find(s, id) IN
  IF f.exc # "none" THEN [s |-> s, ret |-> Raise(f.exc)]
  ELSE IF ~f.found THEN [s |-> s, ret |-> Fail("Order {id} not found")]
  ELSE IF s.orders[f.index].status # "PAID" THEN [s |-> s, ret |-> Fail("Order not yet paid")]
  ELSE [s |-> ship_with(s, id), ret |-> Returned("ok", "none", id, 0)]

\* ---------------------------------------------------------------- actions
\* the explored part of the state space
InBounds(s) ==
  /\ \A p \in DOMAIN s.stock : s.stock[p] <= MaxStock
  /\ Len(s.orders) <= MaxOrders
  /\ \A i \in 1..Len(s.carts) :
       \A j \in 1..Len(s.carts[i].items) : s.carts[i].items[j].qty <= MaxLine
  /\ Len(s.payments) <= MaxPayments
  /\ Len(s.shipments) <= MaxShipments

\* the handler's result becomes the next state; `last` records the call
Effect(r, op) ==
  /\ stock_cache' = r.s.stock
  /\ inventory' = r.s.inv
  /\ customers' = r.s.customers
  /\ products' = r.s.products
  /\ carts' = r.s.carts
  /\ orders' = r.s.orders
  /\ invoices' = r.s.invoices
  /\ payments' = r.s.payments
  /\ shipments' = r.s.shipments
  /\ last' = [op |-> op, outcome |-> r.ret.outcome, exc |-> r.ret.exc,
              order_id |-> r.ret.order_id, invoice_id |-> r.ret.invoice_id,
              undone |-> r.ret.undone]
  /\ UNCHANGED <<rows, assigned, run>>

\* a handler's result, kept within the explored part of the state space
Commit(r, op) == InBounds(r.s) /\ Effect(r, op)

\* the explored part of the state space when the cart is exercised: cart
\* lines up to MaxCartQty
CartBounds(s) ==
  /\ \A p \in DOMAIN s.stock : s.stock[p] <= MaxStock
  /\ Len(s.orders) <= MaxOrders
  /\ \A i \in 1..Len(s.carts) :
       \A j \in 1..Len(s.carts[i].items) : s.carts[i].items[j].qty <= MaxCartQty
  /\ Len(s.payments) <= MaxPayments
  /\ Len(s.shipments) <= MaxShipments

CommitCart(r, op) == CartBounds(r.s) /\ Effect(r, op)

\* writes of inventory.json fail (ok = FALSE) at most MaxFaults times, and
\* only in a call where the failure makes a difference
WriteFault(ok, rT, rF) ==
  /\ ok \/ (faults < MaxFaults /\ rT.s # rF.s)
  /\ faults' = IF ok THEN faults ELSE faults + 1

\* an item of a batch: any quantity (0 is rejected by reserve_stock)
BatchItems == [product_id : ProductIds, qty : 0..MaxQty]
\* an item of a batch as a cart would produce it
LineItems == [product_id : ProductIds, qty : 1..MaxLine]

ReserveStock(p, q, ok) ==
  /\ WriteFault(ok, reserve_stock(Store, p, q, TRUE), reserve_stock(Store, p, q, FALSE))
  /\ Commit(reserve_stock(Store, p, q, ok), "reserve_stock")

ReleaseStock(p, q, ok) ==
  /\ WriteFault(ok, release_stock(Store, p, q, TRUE), release_stock(Store, p, q, FALSE))
  /\ Commit(release_stock(Store, p, q, ok), "release_stock")

SetStock(p, q, ok) ==
  /\ WriteFault(ok, set_stock(Store, p, q, TRUE), set_stock(Store, p, q, FALSE))
  /\ Commit(set_stock(Store, p, q, ok), "set_stock")

ReserveBatch(items, ok) ==
  /\ WriteFault(ok, reserve_batch(Store, items, TRUE), reserve_batch(Store, items, FALSE))
  /\ Commit(reserve_batch(Store, items, ok), "reserve_batch")

ReleaseBatch(items, ok) ==
  /\ WriteFault(ok, release_batch(Store, items, TRUE), release_batch(Store, items, FALSE))
  /\ Commit(release_batch(Store, items, ok), "release_batch")

AddToCart(c, p, q) ==
  /\ Commit(add_to_cart(Store, c, p, q), "add_to_cart")
  /\ UNCHANGED faults

ClearCart(c) ==
  /\ Commit(clear_cart(Store, c), "clear_cart")
  /\ UNCHANGED faults

ReserveAll(c, ok) ==
  /\ WriteFault(ok, cart_reserve_all(Store, c, TRUE), cart_reserve_all(Store, c, FALSE))
  /\ Commit(cart_reserve_all(Store, c, ok), "reserve_all")

CreateOrder(c, m, ok) ==
  /\ WriteFault(ok, create_order(Store, c, m, TRUE), create_order(Store, c, m, FALSE))
  /\ Commit(create_order(Store, c, m, ok), "create_order")

CheckoutVia(c, m, ok) ==
  /\ WriteFault(ok, checkout_via(Store, c, m, TRUE), checkout_via(Store, c, m, FALSE))
  /\ Commit(checkout_via(Store, c, m, ok), "checkout_via")

AddItem(c, p, q) ==
  /\ CommitCart(add_to_cart(Store, c, p, q), "add_to_cart")
  /\ UNCHANGED faults

UpdateItemQuantity(c, p, q) ==
  /\ CommitCart(update_item_quantity(Store, c, p, q), "update_item_quantity")
  /\ UNCHANGED faults

RemoveItem(c, p) ==
  /\ CommitCart(remove_item(Store, c, p), "remove_item")
  /\ UNCHANGED faults

ServiceAddItem(c, p, q) ==
  /\ CommitCart(service_add_item(Store, c, p, q), "service_add_item")
  /\ UNCHANGED faults

SetPrice(p, price) ==
  /\ CommitCart(product_set_price(Store, p, price), "set_price")
  /\ UNCHANGED faults

GetCart(c) ==
  /\ CommitCart(get_cart(Store, c), "get_cart")
  /\ UNCHANGED faults

EmptyCart(c) ==
  /\ CommitCart(clear_cart(Store, c), "clear_cart")
  /\ UNCHANGED faults

CartCreateOrder(c, m) ==
  /\ CommitCart(create_order(Store, c, m, TRUE), "create_order")
  /\ UNCHANGED faults

CartCheckoutVia(c, m) ==
  /\ CommitCart(checkout_via(Store, c, m, TRUE), "checkout_via")
  /\ UNCHANGED faults

PayAndMark(o, m) ==
  /\ Commit(pay_and_mark(Store, o, m), "pay_and_mark")
  /\ UNCHANGED faults

PayVia(i, m) ==
  /\ Commit(pay_via(Store, i, m), "pay_via")
  /\ UNCHANGED faults

ShipOrder(o) ==
  /\ Commit(ship_order(Store, o), "ship_order")
  /\ UNCHANGED faults

StaffShipOrder(o) ==
  /\ Commit(staff_ship_order(Store, o), "staff_ship_order")
  /\ UNCHANGED faults

ShipPaidOrder(o) ==
  /\ Commit(ship_paid_order(Store, o), "ship_paid_order")
  /\ UNCHANGED faults

ShipWith(o) ==
  /\ Commit(order_ship_with(Store, o), "ship_with")
  /\ UNCHANGED faults

\* one statement of a checkout: the files after it, the handler's position,
\* and the handler's result once it has returned ("running" before that)
StepEffect(r, op) ==
  /\ InBounds(r.s)
  /\ stock_cache' = r.s.stock
  /\ inventory' = r.s.inv
  /\ customers' = r.s.customers
  /\ products' = r.s.products
  /\ carts' = r.s.carts
  /\ orders' = r.s.orders
  /\ invoices' = r.s.invoices
  /\ payments' = r.s.payments
  /\ shipments' = r.s.shipments
  /\ run' = r.run
  /\ last' = [op |-> op,
              outcome |-> IF r.run.pc = "idle" THEN r.ret.outcome ELSE "running",
              exc |-> r.ret.exc, order_id |-> r.ret.order_id,
              invoice_id |-> r.ret.invoice_id, undone |-> r.ret.undone]
  /\ UNCHANGED <<rows, assigned, faults>>

BeginCheckout(c, m, path) ==
  /\ run.pc = "idle"
  /\ StepEffect(checkout_begin(Store, c, m, path), path)

StepCheckout ==
  /\ run.pc # "idle"
  /\ StepEffect(checkout_step(Store, run), run.path)

\* field values written to a record of `rows`
FieldValues == {0, 1}

\* a StorageManager call on `rows`: nothing else is touched
StorageEffect(recs, op, found) ==
  /\ Len(recs) <= MaxRecords
  /\ rows' = recs
  /\ last' = [op |-> op, outcome |-> IF found THEN "ok" ELSE "fail", exc |-> "none",
              order_id |-> 0, invoice_id |-> 0, undone |-> 0]
  /\ UNCHANGED <<stock_cache, inventory, faults, customers, products, carts, orders,
                 invoices, payments, shipments, run>>

StorageAdd(v) ==
  /\ Len(assigned) < MaxAdds
  /\ StorageEffect(storage_add(rows, v).recs, "storage_add", TRUE)
  /\ assigned' = Append(assigned, storage_add(rows, v).id)

StorageUpdate(id, v) ==
  /\ StorageEffect(storage_update(rows, id, v).recs, "storage_update",
                   storage_update(rows, id, v).found)
  /\ UNCHANGED assigned

StorageDelete(id) ==
  /\ StorageEffect(storage_delete(rows, id).recs, "storage_delete",
                   storage_delete(rows, id).found)
  /\ UNCHANGED assigned

\* ------------------------------------------------------------ behaviours
\* after construction: the cache is loaded from inventory.json
\* (Inventory._load_stock), product 2 may never have been stocked, the
\* session's customer may have no customer record, no cart or order exists
Init ==
  /\ stock_cache \in [ProductIds -> {MaxStock}] \cup [{1} -> {MaxStock}]
  /\ inventory = stock_cache
  /\ faults = 0
  /\ customers \in SUBSET CustomerIds
  /\ products = Products
  /\ carts = <<>>
  /\ orders = <<>>
  /\ invoices = <<>>
  /\ payments = <<>>
  /\ shipments = <<>>
  /\ rows = <<>>
  /\ assigned = <<>>
  /\ run = Idle
  /\ last = [op |-> "init", outcome |-> "ok", exc |-> "none", order_id |-> 0,
             invoice_id |-> 0, undone |-> 0]

\* the five operations of the stock ledger, called directly
LedgerOps(qtys, batches, oks) ==
  \/ \E p \in AllIds, q \in qtys, ok \in oks : ReserveStock(p, q, ok)
  \/ \E p \in ProductIds, q \in qtys, ok \in oks : ReleaseStock(p, q, ok)
  \/ \E p \in ProductIds, q \in (0 - 1)..MaxStock, ok \in oks : SetStock(p, q, ok)
  \/ \E items \in batches, ok \in oks : ReserveBatch(items, ok)
  \/ \E items \in batches, ok \in oks : ReleaseBatch(items, ok)

CartStep ==
  \/ \E c \in CustomerIds, p \in AllIds, q \in 0..MaxLine : AddToCart(c, p, q)
  \/ \E c \in CustomerIds : ClearCart(c)
  \/ \E c \in CustomerIds : ReserveAll(c, TRUE)

CheckoutStep ==
  \/ \E c \in CustomerIds, m \in Methods : CreateOrder(c, m, TRUE)
  \/ \E c \in CustomerIds, m \in Methods : CheckoutVia(c, m, TRUE)

\* the whole system; every write of inventory.json succeeds
Next ==
  \/ LedgerOps(0..MaxLine, SeqsUpTo(LineItems, MaxBatch), {TRUE})
  \/ CartStep
  \/ CheckoutStep

Spec == Init /\ [][Next]_vars

\* the stock ledger alone, called with any id and quantity
LedgerNext == LedgerOps(0..MaxQty, SeqsUpTo(BatchItems, MaxBatch), {TRUE})

SpecLedger == Init /\ [][LedgerNext]_vars

\* the reservation paths: stock is set, carts are filled, and stock is
\* reserved for a batch of items or for a whole cart
ReserveNext ==
  \/ \E p \in ProductIds, q \in 0..MaxStock : SetStock(p, q, TRUE)
  \/ \E items \in SeqsUpTo(LineItems, MaxBatch) : ReserveBatch(items, TRUE)
  \/ \E c \in CustomerIds, p \in AllIds, q \in 0..MaxLine : AddToCart(c, p, q)
  \/ \E c \in CustomerIds : ReserveAll(c, TRUE)

SpecReserve == Init /\ [][ReserveNext]_vars

\* order and invoice ids a caller may pass: those in use and one beyond
OrderIds == 1..(MaxOrders + 1)

\* an order's life: carts are filled (with product 1) and checked out, orders
\* and invoices are paid again, orders are shipped by either service or by
\* the model directly
LifecycleStep ==
  \/ \E o \in OrderIds, m \in Methods : PayAndMark(o, m)
  \/ \E i \in OrderIds, m \in Methods : PayVia(i, m)
  \/ \E o \in OrderIds : ShipOrder(o)
  \/ \E o \in OrderIds : StaffShipOrder(o)
  \/ \E o \in OrderIds : ShipPaidOrder(o)
  \/ \E o \in OrderIds : ShipWith(o)

OrdersNext ==
  \/ \E c \in CustomerIds, q \in 1..MaxLine : AddToCart(c, 1, q)
  \/ CheckoutStep
  \/ LifecycleStep

SpecOrders == Init /\ [][OrdersNext]_vars

\* the cart's lines: they are added (MaxLine units at a time), changed and
\* removed, and the cart is emptied
CartLinesNext ==
  \/ \E c \in CustomerIds, p \in AllIds, q \in 0..MaxLine : AddItem(c, p, q)
  \/ \E c \in CustomerIds, p \in ProductIds, q \in (0 - 1)..MaxCartQty :
       UpdateItemQuantity(c, p, q)
  \/ \E c \in CustomerIds, p \in ProductIds : RemoveItem(c, p)
  \/ \E c \in CustomerIds : EmptyCart(c)

\* the cart's lines alone, without checkout
SpecCartLines == Init /\ [][CartLinesNext]_vars

\* the cart with checkout by either path
CartNext ==
  \/ CartLinesNext
  \/ \E c \in CustomerIds, m \in Methods : CartCreateOrder(c, m)
  \/ \E c \in CustomerIds, m \in Methods : CartCheckoutVia(c, m)

SpecCart == Init /\ [][CartNext]_vars

\* two customers, each with a cart of product 1: the carts are looked up,
\* filled, changed, emptied and checked out
TwoCustomers == {1, 2}

TwoCartsNext ==
  \/ \E c \in TwoCustomers : GetCart(c)
  \/ \E c \in TwoCustomers, q \in 0..MaxLine : AddItem(c, 1, q)
  \/ \E c \in TwoCustomers, q \in 0..MaxCartQty : UpdateItemQuantity(c, 1, q)
  \/ \E c \in TwoCustomers : EmptyCart(c)
  \/ \E c \in TwoCustomers, m \in Methods : CartCheckoutVia(c, m)

SpecTwoCarts == Init /\ [][TwoCartsNext]_vars

\* adding to the cart, by the customer or through the cart service, with any
\* product id and quantity, while the stock levels change
AddNext ==
  \/ \E p \in ProductIds, q \in 0..MaxStock : SetStock(p, q, TRUE)
  \/ \E c \in CustomerIds, p \in AllIds, q \in (0 - 1)..MaxCartQty : AddItem(c, p, q)
  \/ \E c \in CustomerIds, p \in AllIds, q \in (0 - 1)..(MaxStock + 1) :
       ServiceAddItem(c, p, q)
  \/ \E c \in CustomerIds : EmptyCart(c)

SpecAdd == Init /\ [][AddNext]_vars

\* checkouts followed statement by statement; carts are filled between
\* checkouts
StepsNext ==
  \/ \E c \in CustomerIds, p \in ProductIds, q \in 1..MaxLine :
       run.pc = "idle" /\ AddToCart(c, p, q)
  \/ \E c \in CustomerIds, m \in Methods, path \in Paths : BeginCheckout(c, m, path)
  \/ StepCheckout

SpecSteps == Init /\ [][StepsNext]_vars

\* carts are filled, looked up and emptied while product prices change
PricesNext ==
  \/ \E c \in CustomerIds, p \in ProductIds, q \in 1..MaxLine : AddItem(c, p, q)
  \/ \E p \in AllIds, price \in Prices : SetPrice(p, price)
  \/ \E c \in CustomerIds : GetCart(c)
  \/ \E c \in CustomerIds : EmptyCart(c)

SpecPrices == Init /\ [][PricesNext]_vars

\* carts are filled and checked out, and orders are shipped through either
\* service, in any order of calls
ShippingNext ==
  \/ \E c \in CustomerIds, q \in 1..MaxLine : AddToCart(c, 1, q)
  \/ CheckoutStep
  \/ \E o \in OrderIds : ShipOrder(o)
  \/ \E o \in OrderIds : StaffShipOrder(o)

SpecShipping == Init /\ [][ShippingNext]_vars

\* the same, with orders and invoices paid again between the ship_order calls
ReshipNext ==
  \/ ShippingNext
  \/ \E o \in OrderIds, m \in Methods : PayAndMark(o, m)
  \/ \E i \in OrderIds, m \in Methods : PayVia(i, m)

SpecReship == Init /\ [][ReshipNext]_vars

\* one collection used through StorageManager: records are added, updated
\* and deleted by id (ids in use and one beyond)
StorageNext ==
  \/ \E v \in FieldValues : StorageAdd(v)
  \/ \E id \in 1..(MaxRecords + 1), v \in FieldValues : StorageUpdate(id, v)
  \/ \E id \in 1..(MaxRecords + 1) : StorageDelete(id)

SpecStorage == Init /\ [][StorageNext]_vars

\* the stock ledger alone, where a write of inventory.json may fail
FaultyNext == LedgerOps(0..MaxLine, SeqsUpTo(LineItems, MaxBatch), BOOLEAN)

SpecFaulty == Init /\ [][FaultyNext]_vars

\* ================================================================ claims
\* what the claims read from a state
StockOf(p) == check_stock(stock_cache, p)

\* the stored line items of customer c's cart (none without a cart record)
LinesOf(c) ==
  IF \E i \in 1..Len(carts) : carts[i].customer_id = c
  THEN carts[CHOOSE i \in 1..Len(carts) :
               /\ carts[i].customer_id = c
               /\ \A j \in 1..(i - 1) : carts[j].customer_id # c].items
  ELSE <<>>

\* the quantity customer c's cart holds of product p
LineQty(c, p) ==
  SeqSum([i \in 1..Len(LinesOf(c)) |->
            IF LinesOf(c)[i].product_id = p THEN LinesOf(c)[i].qty ELSE 0])

\* C1: in every reachable state, after any sequence of reserve_stock,
\* release_stock, set_stock, reserve_batch, release_batch, reserve_all and
\* checkout calls (failed ones included), check_stock(p) >= 0 for every
\* product id p, known to the ledger or not.
C1_StockNonNegative == \A p \in AllIds : StockOf(p) >= 0

\* a reservation took product 1 down to exactly zero
C1_Witness ==
  /\ last.op = "reserve_stock" /\ last.outcome = "ok"
  /\ 1 \in DOMAIN stock_cache /\ stock_cache[1] = 0

\* C2: when reserve_batch or Cart.reserve_all fails at some item, the stock
\* level of every product after the call equals its level before the call.
C2_ReservationAtomic ==
  [][(last'.op \in {"reserve_batch", "reserve_all"} /\ last'.outcome = "raise")
       => \A p \in AllIds : check_stock(stock_cache', p) = StockOf(p)]_vars

\* a reserve_batch failed after it had reserved an earlier item
C2_Witness ==
  /\ last.op = "reserve_batch" /\ last.outcome = "raise" /\ last.undone >= 1

\* C3: reserve_stock(p, q) with q > 0: if check_stock(p) < q it raises
\* InsufficientStockError and cache and file are unchanged; otherwise
\* check_stock(p) drops by exactly q and every other level is unchanged.
C3_ReserveReference ==
  [][\A p \in AllIds, q \in 1..MaxQty :
       ReserveStock(p, q, TRUE) =>
         IF StockOf(p) < q
         THEN /\ last'.outcome = "raise" /\ last'.exc = "InsufficientStockError"
              /\ stock_cache' = stock_cache /\ inventory' = inventory
         ELSE /\ last'.outcome = "ok"
              /\ check_stock(stock_cache', p) = StockOf(p) - q
              /\ \A o \in AllIds \ {p} : check_stock(stock_cache', o) = StockOf(o)]_vars

\* a reserve_stock was refused although every product has stock left
C3_Witness ==
  /\ last.op = "reserve_stock" /\ last.exc = "InsufficientStockError"
  /\ \A p \in ProductIds : StockOf(p) > 0

\* the total of customer c's stored cart lines
CartTotal(c) == SeqSum([i \in 1..Len(LinesOf(c)) |-> LinesOf(c)[i].subtotal])

\* this step is a checkout of customer c with method m, by either path
Checkout(c, m) ==
  \/ last'.op = "create_order" /\ CreateOrder(c, m, TRUE)
  \/ last'.op = "checkout_via" /\ CheckoutVia(c, m, TRUE)

\* customer c's cart is not empty and every line fits the available stock,
\* so that reserve_all succeeds
PassesReservation(c) ==
  /\ LinesOf(c) # <<>>
  /\ \A p \in AllIds : LineQty(c, p) <= StockOf(p)

StockUnchanged == \A p \in AllIds : check_stock(stock_cache', p) = StockOf(p)

\* C4 (as claimed): every checkout attempt that passes reservation and does
\* not end in success leaves every stock level at its value before the
\* attempt.
C4_RollbackEveryPath ==
  [][\A c \in CustomerIds, m \in Methods :
       (Checkout(c, m) /\ PassesReservation(c) /\ last'.outcome # "ok")
         => StockUnchanged]_vars

\* C5 (as claimed): every create_order call ends in success, in the raised
\* CartEmptyError, or in a failure result for insufficient stock or a failed
\* payment; no other exception reaches the caller.
C5_CheckoutTotality ==
  last.op = "create_order" =>
    \/ last.outcome = "ok"
    \/ last.outcome = "raise" /\ last.exc = "CartEmptyError"
    \/ last.outcome = "fail" /\ last.exc \in {"InsufficientStock", "PaymentFailed"}

\* the records a successful checkout of customer c with method m leaves
SuccessRecords(c, m) ==
  /\ last'.outcome = "ok"
  /\ Len(orders') = Len(orders) + 1
  /\ SubSeq(orders', 1, Len(orders)) = orders
  /\ Len(invoices') = Len(invoices) + 1
  /\ SubSeq(invoices', 1, Len(invoices)) = invoices
  /\ Len(payments') = Len(payments) + 1
  /\ SubSeq(payments', 1, Len(payments)) = payments
  /\ LET o == orders'[Len(orders')]
         i == invoices'[Len(invoices')]
         y == payments'[Len(payments')]
     IN /\ o.id = last'.order_id /\ i.id = last'.invoice_id
        /\ \A k \in 1..Len(orders) : orders[k].id # o.id
        /\ o.status = "PAID" /\ o.total = CartTotal(c)
        /\ i.order_id = o.id /\ i.paid
        /\ y.order_id = o.id /\ y.status = "APPROVED" /\ y.method = m

C7_SuccessEffect ==
  [][\A c \in CustomerIds, m \in Methods :
       (Checkout(c, m) /\ last'.outcome = "ok")
         => /\ \A p \in AllIds : check_stock(stock_cache', p) = StockOf(p) - LineQty(c, p)
            /\ \E i \in 1..Len(carts') : carts'[i].customer_id = c
            /\ \A i \in 1..Len(carts') :
                 carts'[i].customer_id = c => carts'[i].items = <<>>]_vars

\* a checkout succeeded and sold the last unit of product 1
C7_Witness ==
  /\ last.op = "checkout_via" /\ last.outcome = "ok"
  /\ StockOf(1) = 0 /\ LinesOf(1) = <<>>

\* C8: a checkout with an empty cart raises CartEmptyError and creates no
\* order, invoice or payment record and changes no stock level.
C8_EmptyCart ==
  [][\A c \in CustomerIds, m \in Methods :
       (Checkout(c, m) /\ LinesOf(c) = <<>>)
         => /\ last'.outcome = "raise" /\ last'.exc = "CartEmptyError"
            /\ orders' = orders /\ invoices' = invoices /\ payments' = payments
            /\ stock_cache' = stock_cache /\ inventory' = inventory]_vars

\* a checkout of an empty cart was refused
C8_Witness ==
  /\ last.op \in {"create_order", "checkout_via"} /\ last.exc = "CartEmptyError"
  /\ LinesOf(1) = <<>>

\* C9: a checkout attempt that does not succeed leaves the customer's cart
\* with exactly the line items it had before the attempt.
C9_CartPreserved ==
  [][\A c \in CustomerIds, m \in Methods :
       (Checkout(c, m) /\ last'.outcome # "ok") => LinesOf(c)' = LinesOf(c)]_vars

\* a checkout failed after reservation (no customer record or unsupported
\* method) and the cart still holds its lines
C9_Witness ==
  /\ last.op = "checkout_via" /\ last.outcome = "fail" /\ last.exc = "CheckoutFailed"
  /\ LinesOf(1) # <<>>

\* C10 (as claimed): when a cart line asks for more than the available stock,
\* checkout returns a failure result, creates no order, invoice or payment
\* and leaves every stock level at its pre-call value.
C10_InsufficientStock ==
  [][\A c \in CustomerIds, m \in Methods :
       (Checkout(c, m) /\ \E p \in AllIds : LineQty(c, p) > StockOf(p))
         => /\ last'.outcome = "fail"
            /\ orders' = orders /\ invoices' = invoices /\ payments' = payments
            /\ StockUnchanged]_vars

\* the records a call appended to a collection
Appended(before, after) == SubSeq(after, Len(before) + 1, Len(after))

\* the call kept every record the collection held before it, unchanged
KeptAll(before, after) ==
  Len(after) >= Len(before) /\ SubSeq(after, 1, Len(before)) = before

\* C11 (as claimed): a checkout of a non-empty cart whose lines all fit the
\* stock, with a method other than card or wallet, does not succeed, writes no
\* payment record, leaves every stock level at its pre-call value, and every
\* order and invoice it created stays CREATED and unpaid.
C11_UnsupportedMethod ==
  [][\A c \in CustomerIds, m \in Methods \ {"card", "wallet"} :
       (Checkout(c, m) /\ PassesReservation(c))
         => /\ last'.outcome # "ok"
            /\ payments' = payments
            /\ StockUnchanged
            /\ KeptAll(orders, orders') /\ KeptAll(invoices, invoices')
            /\ \A i \in 1..Len(Appended(orders, orders')) :
                 Appended(orders, orders')[i].status = "CREATED"
            /\ \A i \in 1..Len(Appended(invoices, invoices')) :
                 ~Appended(invoices, invoices')[i].paid]_vars

\* C12 (as claimed): a checkout that passes reservation for a customer id
\* without a customer record reports failure, creates no order, invoice or
\* payment, and leaves every stock level at its pre-call value.
C12_OrderCreationFailure ==
  [][\A c \in CustomerIds, m \in Methods :
       (Checkout(c, m) /\ PassesReservation(c) /\ c \notin customers)
         => /\ last'.outcome = "fail"
            /\ orders' = orders /\ invoices' = invoices /\ payments' = payments
            /\ StockUnchanged]_vars

\* every order record of before the step is still there with the same id,
\* customer, items and total
OrdersKeepContent ==
  \A i \in 1..Len(orders) :
    /\ i <= Len(orders')
    /\ orders'[i].id = orders[i].id
    /\ orders'[i].customer_id = orders[i].customer_id
    /\ orders'[i].items = orders[i].items
    /\ orders'[i].total = orders[i].total

\* C13: no operation changes the item list or the total of an order record
\* that exists; only its status changes.
C13_OrderImmutable == [][OrdersKeepContent]_vars

\* an order was paid twice and shipped, and the cart changed afterwards
C13_Witness ==
  /\ last.op = "add_to_cart" /\ last.outcome = "ok"
  /\ Len(orders) >= 1 /\ orders[1].status = "SHIPPED" /\ orders[1].items # <<>>
  /\ Len(payments) >= 2

\* position of a status in the order's life
StatusRank(status) ==
  IF status = "CREATED" THEN 0 ELSE IF status = "PAID" THEN 1 ELSE 2

\* C14 (as claimed): no operation moves an order's status backwards, from
\* SHIPPED to PAID or CREATED or from PAID to CREATED.
C14_StatusForward ==
  [][\A i \in 1..Len(orders) :
       /\ i <= Len(orders')
       /\ StatusRank(orders'[i].status) >= StatusRank(orders[i].status)]_vars

\* this step is ship_order(o, tracking) of either service
Shipping(o) ==
  \/ last'.op = "ship_order" /\ ShipOrder(o)
  \/ last'.op = "staff_ship_order" /\ StaffShipOrder(o)

\* C15: ship_order succeeds only for an existing order whose status is PAID,
\* and then the order is SHIPPED and a new shipment record for it exists;
\* for a missing order or one that is not PAID it returns failure, creates no
\* shipment record and leaves the orders unchanged.
C15_ShipPrecondition ==
  [][\A o \in OrderIds :
       Shipping(o) =>
         LET i == FindIndex(orders, o) IN
         IF i # 0 /\ orders[i].status = "PAID"
         THEN last'.outcome = "ok" =>
                /\ orders'[i].status = "SHIPPED"
                /\ KeptAll(shipments, shipments')
                /\ Len(shipments') = Len(shipments) + 1
                /\ shipments'[Len(shipments')].order_id = o
         ELSE /\ last'.outcome = "fail"
              /\ shipments' = shipments
              /\ orders' = orders]_vars

\* a paid order was shipped
C15_Witness ==
  /\ last.op \in {"ship_order", "staff_ship_order"} /\ last.outcome = "ok"
  /\ Len(orders) >= 1 /\ orders[1].status = "SHIPPED"
  /\ Len(shipments) = 1 /\ shipments[1].order_id = orders[1].id

\* C18: a step never changes or removes a payment record, every payment
\* record is APPROVED, and a step adds a payment record exactly when it is a
\* checkout attempt that succeeded, so that after any run of checkout
\* attempts there are as many payment records as successful attempts.
C18_PaymentAudit ==
  [][/\ KeptAll(payments, payments')
     /\ \A i \in 1..Len(payments') : payments'[i].status = "APPROVED"
     /\ Len(payments') = Len(payments) +
          (IF last'.op \in {"create_order", "checkout_via"} /\ last'.outcome = "ok"
           THEN 1 ELSE 0)]_vars

\* a checkout attempt failed after an earlier one had succeeded
C18_Witness ==
  /\ last.op \in {"create_order", "checkout_via"} /\ last.outcome # "ok"
  /\ Len(payments) = 1 /\ Len(orders) = 1 /\ orders[1].status = "PAID"

\* C19: Invoice.create writes paid = false, and no operation takes an
\* invoice from paid back to unpaid (so the flag changes at most once).
C19_InvoicePaidMonotonic ==
  [][/\ \A o \in OrderIds :
          LET made == invoice_create(Store, o, 0).s.invoices
          IN ~made[Len(made)].paid
     /\ \A i \in 1..Len(invoices) :
          /\ i <= Len(invoices')
          /\ invoices'[i].id = invoices[i].id
          /\ invoices[i].paid => invoices'[i].paid]_vars

\* an invoice that was paid already was paid again
C19_Witness ==
  /\ last.op = "pay_via" /\ last.outcome = "ok"
  /\ Len(payments) = 2 /\ Len(invoices) = 1 /\ invoices[1].paid

\* the stored lines of customer c's cart in store s
StoredLines(s, c) ==
  IF \E i \in 1..Len(s.carts) : s.carts[i].customer_id = c
  THEN s.carts[CHOOSE i \in 1..Len(s.carts) : s.carts[i].customer_id = c].items
  ELSE <<>>

\* C16: from a cart that does not hold product p, add_item(p, a) followed by
\* add_item(p, b) with a, b > 0 leaves exactly one line for p, with quantity
\* a + b and subtotal price * (a + b).
C16_CartMerge ==
  \A c \in CustomerIds, p \in ProductIds :
    LineQty(c, p) = 0 =>
      \A a, b \in 1..MaxCartQty :
        LET first == add_to_cart(Store, c, p, a)
            second == add_to_cart(first.s, c, p, b)
            lines == StoredLines(second.s, c)
            forP == {i \in 1..Len(lines) : lines[i].product_id = p}
        IN /\ first.ret.outcome = "ok" /\ second.ret.outcome = "ok"
           /\ Cardinality(forP) = 1
           /\ \A i \in forP : /\ lines[i].qty = a + b
                              /\ lines[i].subtotal = products[p].price * (a + b)
           /\ Len(lines) = Len(LinesOf(c)) + 1

\* product 1 was added again to a cart that held it next to a line of
\* product 2: the line holds more than one add brings
C16_Witness ==
  /\ last.op = "add_to_cart" /\ last.outcome = "ok"
  /\ Len(LinesOf(1)) = 2 /\ LinesOf(1)[1].product_id = 2
  /\ LineQty(1, 1) > MaxLine /\ LineQty(1, 2) = MaxLine

\* C17: in every stored cart no two lines reference the same product and
\* every line has a quantity above 0.
C17_CartLines ==
  \A k \in 1..Len(carts) :
    LET lines == carts[k].items IN
    /\ \A i, j \in 1..Len(lines) : lines[i].product_id = lines[j].product_id => i = j
    /\ \A i \in 1..Len(lines) : lines[i].qty > 0

\* a line was removed from a cart of two lines after a checkout
C17_Witness ==
  /\ last.op \in {"remove_item", "update_item_quantity"} /\ last.outcome = "ok"
  /\ Len(LinesOf(1)) = 1 /\ Len(orders) = 1

\* C20 (as claimed): the records of a collection always have pairwise
\* different ids, and every id StorageManager.add assigns is greater than
\* every id it assigned before in that collection, also after deletions.
C20_RecordIds ==
  [][/\ \A i, j \in 1..Len(rows') : rows'[i].id = rows'[j].id => i = j
     /\ (\E v \in FieldValues : StorageAdd(v)) =>
          \A k \in 1..Len(assigned) : assigned'[Len(assigned')] > assigned[k]]_vars

\* the cart records of customer c
CartsOf(c) == {i \in 1..Len(carts) : carts[i].customer_id = c}

\* looking the cart of c up: the record already there is returned and nothing
\* is written, or (first access) one empty record is added; a second look-up
\* returns the same cart id and writes nothing
LookupStable(c) ==
  LET g == get_or_create_for_customer(Store, c)
      g2 == get_or_create_for_customer(g.s, c)
  IN /\ g2.cart.id = g.cart.id
     /\ g2.s = g.s
     /\ IF CartsOf(c) # {}
        THEN g.s = Store /\ \E i \in CartsOf(c) : carts[i].id = g.cart.id
        ELSE /\ Len(g.s.carts) = Len(carts) + 1
             /\ KeptAll(carts, g.s.carts)
             /\ g.s.carts[Len(g.s.carts)] =
                  [id |-> g.cart.id, customer_id |-> c, items |-> <<>>]

\* every cart record is still there, with its id and its customer
CartsKept ==
  /\ Len(carts') >= Len(carts)
  /\ \A i \in 1..Len(carts) :
       carts'[i].id = carts[i].id /\ carts'[i].customer_id = carts[i].customer_id

\* C21: at most one cart record exists per customer id;
\* get_or_create_for_customer creates a record only on the first access of a
\* customer and returns the same cart id on every later access; no operation
\* deletes a cart record
C21_OneCartPerCustomer ==
  /\ [](\A c \in TwoCustomers : Cardinality(CartsOf(c)) <= 1 /\ LookupStable(c))
  /\ [][CartsKept]_vars

\* both customers have a cart, one of them checked out, and a cart was
\* looked up again
C21_Witness ==
  /\ last.op = "get_cart"
  /\ \A c \in TwoCustomers : Cardinality(CartsOf(c)) = 1
  /\ Len(orders) = 1
  /\ \E i \in 1..Len(carts) : carts[i].items # <<>>

\* the step is CartService.update_item_quantity(c, p, n), or remove_item(c, p)
\* for n = 0
UpdatingQuantity(c, p, n) ==
  \/ last'.op = "update_item_quantity" /\ UpdateItemQuantity(c, p, n)
  \/ n = 0 /\ last'.op = "remove_item" /\ RemoveItem(c, p)

\* C22: update_quantity(p, n): if p is not in the cart the call fails with
\* the not-found error and the cart is unchanged; if n < 0 it fails and the
\* cart is unchanged; if n = 0 the line for p is removed and all other lines
\* are unchanged; if n > 0 the line's quantity becomes n and its subtotal
\* price * n, all other lines unchanged
C22_UpdateQuantity ==
  [][\A c \in CustomerIds, p \in ProductIds, n \in (0 - 1)..MaxCartQty :
       UpdatingQuantity(c, p, n) =>
         LET lines == LinesOf(c)
             i == IF \E k \in 1..Len(lines) : lines[k].product_id = p
                  THEN CHOOSE k \in 1..Len(lines) : lines[k].product_id = p
                  ELSE 0
         IN /\ n < 0 => last'.outcome = "fail" /\ LinesOf(c)' = lines
            /\ i = 0 => last'.outcome = "fail" /\ LinesOf(c)' = lines
            /\ (i = 0 /\ n >= 0) => last'.exc = "ValueError: Item not found in cart"
            /\ (i # 0 /\ n = 0) => last'.outcome = "ok" /\ LinesOf(c)' = RemoveAt(lines, i)
            /\ (i # 0 /\ n > 0) =>
                 /\ last'.outcome = "ok"
                 /\ LinesOf(c)' = [lines EXCEPT ![i].qty = n,
                                                ![i].subtotal = lines[i].price * n]
                 /\ lines[i].price = products[p].price
    ]_vars

\* a line of a two-line cart was set to another quantity
C22_Witness ==
  /\ last.op = "update_item_quantity" /\ last.outcome = "ok"
  /\ \E c \in CustomerIds :
       /\ Len(LinesOf(c)) = 2
       /\ \E i \in 1..2 : LinesOf(c)[i].qty = MaxCartQty

\* the step is Customer.add_to_cart(p, q), i.e. Cart.add_item on c's cart
AddingToCart(c, p, q) == last'.op = "add_to_cart" /\ AddItem(c, p, q)

\* the step is CartService.add_item(c, p, q)
AddingByService(c, p, q) == last'.op = "service_add_item" /\ ServiceAddItem(c, p, q)

\* the call reported failure and left c's lines and every stock level alone
Rejected(c) ==
  /\ last'.outcome \in {"raise", "fail"}
  /\ LinesOf(c)' = LinesOf(c)
  /\ stock_cache' = stock_cache
  /\ inventory' = inventory

\* C23: an add_item with qty <= 0 (invalid quantity), with a product id that
\* does not exist (not found) or, through CartService.add_item, with qty
\* greater than the available stock reports failure and leaves the cart's
\* lines and every stock level unchanged
C23_RejectedAdd ==
  [][\A c \in CustomerIds, p \in AllIds, q \in (0 - 1)..(MaxStock + 1) :
       /\ (AddingToCart(c, p, q) /\ q <= 0) =>
            Rejected(c) /\ last'.exc = "ValueError: Quantity must be positive"
       /\ (AddingToCart(c, p, q) /\ q > 0 /\ p \notin DOMAIN products) =>
            Rejected(c) /\ last'.exc = "ValueError: Product not found"
       /\ (AddingByService(c, p, q) /\ q <= 0) =>
            Rejected(c) /\ last'.exc = "Quantity must be positive"
       /\ (AddingByService(c, p, q) /\ q > 0 /\ p \notin DOMAIN products) =>
            Rejected(c) /\ last'.exc = "Product not found"
       /\ (AddingByService(c, p, q) /\ q > StockOf(p)) => Rejected(c)
    ]_vars

\* the cart service refused to add more than is in stock to a cart that
\* already has a line
C23_Witness ==
  /\ last.op = "service_add_item" /\ last.exc = "Only N units available"
  /\ \E c \in CustomerIds : LinesOf(c) # <<>>
  /\ StockOf(1) = 1

\* the handler that was followed statement by statement, called on the
\* state its checkout began in
Handler(r) ==
  IF r.path = "checkout_via" THEN checkout_via(r.from, r.c, r.method, TRUE)
  ELSE create_order(r.from, r.c, r.method, TRUE)

\* a checkout followed statement by statement ends in the state, and with the
\* result, of its handler taken as one step
StepsAreTheHandler ==
  [][(run.pc # "idle" /\ run'.pc = "idle") =>
       /\ Store' = Handler(run).s
       /\ last'.outcome = Handler(run).ret.outcome
       /\ last'.exc = Handler(run).ret.exc
    ]_vars

\* every line of the cart being checked out has been reserved: each stock
\* level is what it was when the checkout began, less the cart's quantity
Reserved ==
  \A p \in ProductIds :
    StockOf(p) = check_stock(run.from.stock, p) - LineQty(run.c, p)

\* an APPROVED payment record for order o exists
ApprovedPayment(o) ==
  \E k \in 1..Len(payments) : payments[k].order_id = o /\ payments[k].status = "APPROVED"

\* order o is stored with the given status
OrderIs(o, status) ==
  \E k \in 1..Len(orders) : orders[k].id = o /\ orders[k].status = status

\* an invoice for order o is stored with the given paid flag
InvoiceIs(o, paid) ==
  \E k \in 1..Len(invoices) : invoices[k].order_id = o /\ invoices[k].paid = paid

\* C24: in every checkout attempt the steps occur in the order reserve,
\* create order (CREATED), create invoice (unpaid), write payment record,
\* mark invoice paid, mark order PAID, clear cart: each step's effect appears
\* only in a state that shows the effects of the steps before it; no payment
\* record is written before every cart line has been reserved, and no order
\* is marked PAID and no cart is cleared before an APPROVED payment record
\* for that order exists
C24_StepOrder ==
  [][run.pc # "idle" =>
       /\ Len(orders') > Len(orders) =>
            /\ Reserved
            /\ orders' = Append(orders, orders'[Len(orders')])
            /\ orders'[Len(orders')].status = "CREATED"
       /\ Len(invoices') > Len(invoices) =>
            /\ invoices' = Append(invoices, invoices'[Len(invoices')])
            /\ ~invoices'[Len(invoices')].paid
            /\ OrderIs(invoices'[Len(invoices')].order_id, "CREATED")
       /\ Len(payments') > Len(payments) =>
            /\ Reserved
            /\ payments' = Append(payments, payments'[Len(payments')])
            /\ OrderIs(payments'[Len(payments')].order_id, "CREATED")
            /\ InvoiceIs(payments'[Len(payments')].order_id, FALSE)
       /\ \A k \in 1..Len(invoices) :
            (invoices'[k].paid /\ ~invoices[k].paid) =>
              /\ ApprovedPayment(invoices[k].order_id)
              /\ OrderIs(invoices[k].order_id, "CREATED")
       /\ \A k \in 1..Len(orders) :
            (orders'[k].status = "PAID" /\ orders[k].status # "PAID") =>
              /\ ApprovedPayment(orders[k].id)
              /\ InvoiceIs(orders[k].id, TRUE)
       /\ \A c \in CustomerIds :
            (c = run.c /\ LinesOf(c) # <<>> /\ LinesOf(c)' = <<>>) =>
              /\ ApprovedPayment(run.order_id)
              /\ OrderIs(run.order_id, "PAID")
              /\ InvoiceIs(run.order_id, TRUE)
    ]_vars

\* a checkout went through all its steps: the cart was cleared last
C24_Witness ==
  /\ run.pc = "idle" /\ last.op = "checkout_via" /\ last.outcome = "ok"
  /\ \E c \in CustomerIds : LinesOf(c) = <<>>
  /\ ApprovedPayment(last.order_id) /\ OrderIs(last.order_id, "PAID")
  /\ InvoiceIs(last.order_id, TRUE)

\* C25: after every completed reserve_stock, release_stock, set_stock,
\* reserve_batch or release_batch call, successful or failed, also when a
\* save to the backing store fails, inventory.json holds exactly one row per
\* product of the in-memory view, with the in-memory quantity
C25_StockViewConsistent ==
  /\ DOMAIN inventory = DOMAIN stock_cache
  /\ \A p \in DOMAIN stock_cache : inventory[p] = stock_cache[p]

\* the cart of customer c as an access returns it now
Accessed(c) == get_or_create_for_customer(Store, c).cart

\* C26: a line's price is the product's price at the time of the add; when
\* the product's stored price changes afterwards, the line's price and
\* subtotal and the cart total on a later access are still those of the add
C26_PriceSnapshot ==
  [][last'.op = "set_price" =>
       \A c \in CustomerIds :
         /\ Accessed(c)'.items = Accessed(c).items
         /\ cart_total(Accessed(c)') = cart_total(Accessed(c))
    ]_vars

\* the quantity of product p in the stored items of one order
OrderQty(order, p) ==
  SeqSum([i \in 1..Len(order.items) |->
            IF order.items[i].product_id = p THEN order.items[i].qty ELSE 0])

\* the total quantity of product p over the orders of successful checkouts
Sold(p) ==
  SeqSum([k \in 1..Len(orders) |->
            IF orders[k].status \in {"PAID", "SHIPPED"} THEN OrderQty(orders[k], p)
            ELSE 0])

\* C27: in a run of checkout attempts and cart operations only, for every
\* product the stock level plus the quantity sold by successful checkouts
\* stays what it was initially: no step changes the sum
C27_StockConservation ==
  [][\A p \in ProductIds : StockOf(p)' + Sold(p)' = StockOf(p) + Sold(p)]_vars

\* the same for checkouts through Customer.checkout_via whose reservation
\* succeeds or whose cart is empty
ViaConservesStock ==
  [][\A c \in CustomerIds, m \in Methods :
       (last'.op = "checkout_via" /\ CartCheckoutVia(c, m) /\ last'.exc # "InsufficientStock")
         => \A p \in ProductIds : StockOf(p)' + Sold(p)' = StockOf(p) + Sold(p)]_vars

\* the invoice records of order o
InvoicesOf(o) == {k \in 1..Len(invoices) : invoices[k].order_id = o}

\* C28: whenever no checkout is in progress, every order record has exactly
\* one invoice record, the invoice's total equals the order's total, and the
\* invoice is paid exactly when the order's status is PAID or SHIPPED
C28_OrderInvoiceAgree ==
  \A k \in 1..Len(orders) :
    /\ Cardinality(InvoicesOf(orders[k].id)) = 1
    /\ \A i \in InvoicesOf(orders[k].id) :
         /\ invoices[i].total = orders[k].total
         /\ invoices[i].paid <=> orders[k].status \in {"PAID", "SHIPPED"}

\* the shipment records of order o
ShipmentsOf(o) == {k \in 1..Len(shipments) : shipments[k].order_id = o}

C30_ShippingPathsAgree ==
  /\ \A o \in {orders[k].id : k \in 1..Len(orders)} :
       /\ staff_ship_order(Store, o).s = ship_order(Store, o).s
       /\ staff_ship_order(Store, o).ret = ship_order(Store, o).ret
  /\ \A k \in 1..Len(shipments) :
       shipments[k].dated <=> shipments[k].status = "SHIPPED"

\* the part of C30 that holds: both services accept and refuse the same
\* orders, and leave the same orders behind
ShippingPathsAgreeOnOrders ==
  \A o \in OrderIds :
    /\ staff_ship_order(Store, o).ret.outcome = ship_order(Store, o).ret.outcome
    /\ staff_ship_order(Store, o).s.orders = ship_order(Store, o).s.orders

====
